---- MODULE Spec2Model ----
(***************************************************************************)
(* Model of the rnet "collect" pipeline (src/src/collect.rs): flag         *)
(* parsing, the feature filter, the DEM decode, the batch loop with its    *)
(* concurrent tile fetches, the single-flight elevation cache, the node    *)
(* and link files, the deduplication and the boundary markers.             *)
(*                                                                         *)
(* Strings of the source that are not ASCII are written romanised:         *)
(*   "saikasen-tsujo"  = 細河川（通常部）    "saikasen-kare" = 細河川（枯れ川部）*)
(*   "chushin-tsujo"   = 河川中心線（通常部） "chushin-kare"  = 河川中心線（枯れ川部）*)
(*   "jinko-kukan"     = 人工水路（空間）    "jinko-chika"   = 人工水路（地下） *)
(*   "yosuiro"         = 用水路             "sonota"        = その他          *)
(*   "fumei"           = 不明               "ikkyu"         = 一級河川        *)
(*   "nikyu"           = 二級河川           "junyo"         = 準用河川        *)
(*   "futsu"           = 普通河川                                            *)
(***************************************************************************)
EXTENDS Integers, Sequences, FiniteSets, Bags, TLC

\* ------------------------------------------------------------------ bounds
MaxTokens == 2      \* longest comma-separated flag list that is parsed
Near == 1           \* colour channels are sampled within Near of 0, 128, 255
MaxTiles == 2       \* longest tile list of a run
MaxBatch == 2       \* largest batch size of a run

\* --------------------------------------------------------- bit arithmetic
RECURSIVE BitAnd(_, _)
BitAnd(a, b) ==
    IF a = 0 \/ b = 0 THEN 0
    ELSE (IF a % 2 = 1 /\ b % 2 = 1 THEN 1 ELSE 0) + 2 * BitAnd(a \div 2, b \div 2)

RECURSIVE BitOr(_, _)
BitOr(a, b) ==
    IF a = 0 THEN b
    ELSE IF b = 0 THEN a
    ELSE (IF a % 2 = 1 \/ b % 2 = 1 THEN 1 ELSE 0) + 2 * BitOr(a \div 2, b \div 2)

\* bitflags: contains, intersects, union
FlagContains(self, other) == BitAnd(self, other) = other
FlagIntersects(self, other) == BitAnd(self, other) # 0
FlagUnion(self, other) == BitOr(self, other)
FlagEmpty == 0

\* ------------------------------------------------------------ RvRclFlags
RCL_SMALL_NORMAL == 1
RCL_SMALL_DRY == 2
RCL_NORMAL == 4
RCL_DRY == 8
RCL_ARTIFICIAL_OPEN == 16
RCL_ARTIFICIAL_UNDERGROUND == 32
RCL_WATERWAY == 64
RCL_OTHER == 128
RCL_UNKNOWN == 256
RclAll == 511

Err == [ok |-> FALSE, v |-> 0]
Ok(v) == [ok |-> TRUE, v |-> v]

RvRclFlags_from_str(s) ==
    CASE s = "saikasen-tsujo" -> Ok(RCL_SMALL_NORMAL)
      [] s = "saikasen-kare" -> Ok(RCL_SMALL_DRY)
      [] s = "chushin-tsujo" -> Ok(RCL_NORMAL)
      [] s = "chushin-kare" -> Ok(RCL_DRY)
      [] s = "jinko-kukan" -> Ok(RCL_ARTIFICIAL_OPEN)
      [] s = "jinko-chika" -> Ok(RCL_ARTIFICIAL_UNDERGROUND)
      [] s = "yosuiro" -> Ok(RCL_WATERWAY)
      [] s = "sonota" -> Ok(RCL_OTHER)
      [] s = "fumei" -> Ok(RCL_UNKNOWN)
      [] s = "" -> Ok(RCL_UNKNOWN)
      [] s = "sn" -> Ok(RCL_SMALL_NORMAL)
      [] s = "sd" -> Ok(RCL_SMALL_DRY)
      [] s = "n" -> Ok(RCL_NORMAL)
      [] s = "d" -> Ok(RCL_DRY)
      [] s = "ao" -> Ok(RCL_ARTIFICIAL_OPEN)
      [] s = "au" -> Ok(RCL_ARTIFICIAL_UNDERGROUND)
      [] s = "w" -> Ok(RCL_WATERWAY)
      [] s = "o" -> Ok(RCL_OTHER)
      [] s = "u" -> Ok(RCL_UNKNOWN)
      [] s = "all" -> Ok(RclAll)
      [] OTHER -> Err

\* ------------------------------------------------------------ RvCtgFlags
CTG_PRIMARY == 1
CTG_SECONDARY == 2
CTG_QUASI == 4
CTG_REGULAR == 8
CTG_OTHER == 16
CTG_UNKNOWN == 32
CtgAll == 63

RvCtgFlags_from_str(s) ==
    CASE s = "ikkyu" -> Ok(CTG_PRIMARY)
      [] s = "nikyu" -> Ok(CTG_SECONDARY)
      [] s = "junyo" -> Ok(CTG_QUASI)
      [] s = "futsu" -> Ok(CTG_REGULAR)
      [] s = "sonota" -> Ok(CTG_OTHER)
      [] s = "fumei" -> Ok(CTG_UNKNOWN)
      [] s = "" -> Ok(CTG_UNKNOWN)
      [] s = "p" -> Ok(CTG_PRIMARY)
      [] s = "s" -> Ok(CTG_SECONDARY)
      [] s = "q" -> Ok(CTG_QUASI)
      [] s = "r" -> Ok(CTG_REGULAR)
      [] s = "o" -> Ok(CTG_OTHER)
      [] s = "u" -> Ok(CTG_UNKNOWN)
      [] s = "all" -> Ok(CtgAll)
      [] OTHER -> Err

from_str(kind, s) ==
    IF kind = "rcl" THEN RvRclFlags_from_str(s) ELSE RvCtgFlags_from_str(s)

\* parse_flag_list: the list is the result of s.split(","), so it is never
\* empty; a token that does not parse panics; the result is the fold of
\* union over the parsed tokens, starting from the empty flag set.
RECURSIVE FoldUnion(_, _, _)
FoldUnion(kind, list, acc) ==
    IF list = << >> THEN acc
    ELSE FoldUnion(kind, Tail(list), FlagUnion(acc, from_str(kind, Head(list)).v))

\* variant: the fold keeps the last parsed token instead of the union
parse_flag_list_last(kind, list) ==
    IF \E i \in 1..Len(list) : ~from_str(kind, list[i]).ok
    THEN Err
    ELSE Ok(from_str(kind, list[Len(list)]).v)

parse_flag_list(kind, list) ==
    IF \E i \in 1..Len(list) : ~from_str(kind, list[i]).ok
    THEN Err
    ELSE Ok(FoldUnion(kind, list, FlagEmpty))


\* ------------------------------------------------------- the feature filter
\* fetch_ml keeps a feature unless
\*   !rv_rcl_flags.contains(rv_rcl_type) || !river_flags.contains(riv_ctg)
\* variant: a feature is dropped only when both tests fail
Retained_either(rv_rcl_type, riv_ctg, rcl_flags, ctg_flags) ==
    ~(~FlagContains(rcl_flags, rv_rcl_type) /\ ~FlagContains(ctg_flags, riv_ctg))

Retained(rv_rcl_type, riv_ctg, rcl_flags, ctg_flags) ==
    ~(~FlagContains(rcl_flags, rv_rcl_type) \/ ~FlagContains(ctg_flags, riv_ctg))

\* read_property: both properties are parsed, a token that does not parse
\* panics.
read_property(type_tok, ctg_tok) ==
    LET t == RvRclFlags_from_str(type_tok)
        c == RvCtgFlags_from_str(ctg_tok)
    IN  IF t.ok /\ c.ok THEN [ok |-> TRUE, rcl |-> t.v, ctg |-> c.v]
        ELSE [ok |-> FALSE, rcl |-> 0, ctg |-> 0]

\* ------------------------------------------------------------ DEM decode
Pow2_23 == 8388608
Pow2_24 == 16777216

\* x = 2^16 * r + 2^8 * g + b
DemX(r, g, b) == 65536 * r + 256 * g + b

\* the elevation of one pixel in hundredths (u = 0.01): x*u below 2^23,
\* (x - 2^24)*u above it, 0 at 2^23
\* variant: the value 2^23 is decoded as a negative elevation
DecodePixel_noSentinel(r, g, b) ==
    LET x == DemX(r, g, b)
    IN  IF x < Pow2_23 THEN x ELSE x - Pow2_24

DecodePixel(r, g, b) ==
    LET x == DemX(r, g, b)
    IN  IF x < Pow2_23 THEN x
        ELSE IF x > Pow2_23 THEN x - Pow2_24
        ELSE 0

\* ------------------------------------------------------ calc_hilbert_index
IdentityOrder == 26          \* to_hilbert_index(26)
GridSide == 67108864         \* 2^26 pixels per axis at zoom 18

\* one step of the Hilbert walk at cell size s: the quadrant digit
\* (3 * rx) xor ry and the rotation of the remaining coordinates
HilbertDigit(rx, ry) ==
    IF rx = 0 THEN (IF ry = 0 THEN 0 ELSE 1) ELSE (IF ry = 0 THEN 3 ELSE 2)

RECURSIVE HilbertDigits(_, _, _)
HilbertDigits(x, y, s) ==
    IF s = 0 THEN << >>
    ELSE LET rx == (x \div s) % 2
             ry == (y \div s) % 2
             fx == IF ry = 0 /\ rx = 1 THEN GridSide - 1 - x ELSE x
             fy == IF ry = 0 /\ rx = 1 THEN GridSide - 1 - y ELSE y
             nx == IF ry = 0 THEN fy ELSE fx
             ny == IF ry = 0 THEN fx ELSE fy
         IN  << HilbertDigit(rx, ry) >> \o HilbertDigits(nx, ny, s \div 2)

RECURSIVE Base4(_, _, _)
Base4(digits, from, to) ==
    IF from > to THEN 0
    ELSE digits[to] + 4 * Base4(digits, from, to - 1)

\* variant: the index is kept whole, as u64
calc_hilbert_index_u64(x, y) ==
    LET d == HilbertDigits(x, y, GridSide \div 2)
    IN  << Base4(d, 1, IdentityOrder - 16),
           Base4(d, IdentityOrder - 15, IdentityOrder - 8),
           Base4(d, IdentityOrder - 7, IdentityOrder) >>

\* h as u32: of the 52-bit index (26 base-4 digits) the low 32 bits (the
\* last 16 digits) are kept; the result is written <<high 16 bits, low 16 bits>>
calc_hilbert_index(x, y) ==
    LET d == HilbertDigits(x, y, GridSide \div 2)
    IN  << Base4(d, IdentityOrder - 15, IdentityOrder - 8),
           Base4(d, IdentityOrder - 7, IdentityOrder) >>

\* ----------------------------------------------------------------- state
VARIABLES
    cfg,          \* CollectArgs of the run
    pc,           \* position of collect_river_data
    rv_rcl_flags, \* parsed line flags
    rv_ctg_flags, \* parsed category flags
    tiles,        \* result of read_tile_list
    batch_i,      \* index of the batch of the for loop (0-based)
    fstate,       \* per tile of the list: state of its fetch future
    fres,         \* per tile of the list: the lines its future returned
    lines,        \* result of fetch_ml for the batch
    links,        \* result of collect_links for the batch
    lookups,      \* the futures of collect_nodes, one per point
    cache,        \* altitude_cache: tile_coord -> grid
    nodes_file,   \* river_node.csv
    links_file,   \* river_link.csv
    hist,         \* history: what happened so far (not program state)
    fl,           \* flag parsing / feature filter on its own
    dm,           \* decoding of one DEM pixel on its own
    tl,           \* the run of tile_locator
    lk,           \* collect_links on its own
    hb,           \* calc_hilbert_index on its own
    rn            \* a node row written and read back

vars == << cfg, pc, rv_rcl_flags, rv_ctg_flags, tiles, batch_i, fstate, fres,
           lines, links, lookups, cache, nodes_file, links_file, hist, fl, dm, tl, lk, hb, rn >>

runVars == << cfg, pc, rv_rcl_flags, rv_ctg_flags, tiles, batch_i, fstate, fres,
              lines, links, lookups, cache, nodes_file, links_file, hist >>

\* ---------------------------------------------------------------- inputs
\* Points are given by their pixel cell at the identity zoom 18 (x, y) and
\* a position inside the cell (sub): two points of one cell differ in
\* longitude/latitude by less than a pixel.
PtA  == [x |-> 58720256, y |-> 26843545, sub |-> 0]
PtB  == [x |-> 58720257, y |-> 26843545, sub |-> 0]
PtB2 == [x |-> 58720257, y |-> 26843545, sub |-> 1]
PtC  == [x |-> 58724352, y |-> 26843545, sub |-> 0]
PtF  == [x |-> 58720256, y |-> 26909081, sub |-> 0]

Feature(type, ctg, line) == [type |-> type, rivCtg |-> ctg, line |-> line]

\* the GeoJSON documents the river server holds, by tile path
TileBody(path) ==
    CASE path = "1.geojson" -> << Feature("chushin-tsujo", "ikkyu", << PtA, PtB >>) >>
      [] path = "2.geojson" -> << Feature("chushin-tsujo", "ikkyu", << PtB, PtC >>) >>
      [] path = "3.geojson" -> << Feature("jinko-chika", "", << PtB2, PtF >>) >>
      [] OTHER -> << >>

TilePaths == { "1.geojson", "2.geojson", "3.geojson" }

\* sequences without repetition of at most n elements of S
InjSeqs(S, n) ==
    UNION { { q \in [1..m -> S] : \A i, j \in 1..m : i # j => q[i] # q[j] } : m \in 0..n }

Range(q) == { q[i] : i \in 1..Len(q) }

LineOptions == { << "all" >>, << "sn", "n" >>, << "n", "zz" >> }
CategoryOptions == { << "all" >> }

\* the mokuroku files that are tried: the empty file, a title row followed
\* by tile rows, and files of 1 or 2 tile rows without a title row
Mokurokus ==
    { << >> } \cup
    { << "path" >> \o q : q \in InjSeqs(TilePaths, MaxTiles) } \cup
    { q \in InjSeqs(TilePaths, 2) : q # << >> }

\* --zoom-lv
ZoomOptions == { 14, 255 }

\* --aabb: absent, or the fields of the string between the commas
NoAabb == [some |-> FALSE, s |-> << >>]
SomeAabb(s) == [some |-> TRUE, s |-> s]
AabbOptions ==
    { NoAabb,
      SomeAabb(<< "134.0", "135.0", "33.6", "35.0" >>),
      SomeAabb(<< "135.0", "134.0", "33.6", "35.0" >>),
      SomeAabb(<< "134.0", "134.0", "33.6", "35.0" >>),
      SomeAabb(<< "134.0", "135.0", "35.0", "33.6" >>),
      SomeAabb(<< "134.0", "135.0", "x", "35.0" >>),
      SomeAabb(<< "134.0", "135.0", "33.6" >>) }

Configs ==
    [ mokuroku : Mokurokus,
      batch : 1..MaxBatch,
      line : LineOptions,
      category : CategoryOptions,
      zoom_lv : ZoomOptions,
      aabb : AabbOptions ]

\* what the river server can answer to one request: the request fails, or
\* a status and a body arrive
Statuses == { 200, 404 }
RiverResponses ==
    { [err |-> TRUE, status |-> 0, body |-> "none"] }
    \cup [ err : { FALSE }, status : Statuses, body : { "geojson", "garbage" } ]

\* what the DEM server can answer to one request
DemResponses ==
    { [err |-> TRUE, status |-> 0, body |-> "none"] }
    \cup [ err : { FALSE }, status : { 200 }, body : { "png_a", "png_small", "html" } ]
    \cup { [err |-> FALSE, status |-> 404, body |-> "html"] }

\* --------------------------------------------------------------- helpers
RECURSIVE Pow2(_)
Pow2(n) == IF n = 0 THEN 1 ELSE 2 * Pow2(n - 1)

RECURSIVE Flatten(_)
Flatten(qq) == IF qq = << >> THEN << >> ELSE Head(qq) \o Flatten(Tail(qq))

Min(a, b) == IF a < b THEN a ELSE b

IdentityZoom == 18
DemZoom == 14
TileSide == 256

\* ll2pixel of a point at a zoom level not above the identity zoom
PixelAt(pt, z) ==
    << pt.x \div Pow2(IdentityZoom - z), pt.y \div Pow2(IdentityZoom - z) >>

\* tile_coord = (pixel_coord.0 / 256, pixel_coord.1 / 256)
TileCoord(pt) ==
    << PixelAt(pt, DemZoom)[1] \div TileSide, PixelAt(pt, DemZoom)[2] \div TileSide >>

\* local_y * 256 + local_x
LocalIndex(pt) ==
    (PixelAt(pt, DemZoom)[2] % TileSide) * 256 + (PixelAt(pt, DemZoom)[1] % TileSide)

NodeId(pt) == calc_hilbert_index(pt.x, pt.y)

AllPoints == { PtA, PtB, PtB2, PtC, PtF }
DemKeys == { TileCoord(p) : p \in AllPoints }

\* the images the DEM server holds; every pixel of an image has one colour
IsImage(body) == body \in { "png_a", "png_small" }
ImageOf(body) ==
    CASE body = "png_a" -> [w |-> 256, h |-> 256, rgb |-> << 0, 39, 16 >>]
      [] body = "png_small" -> [w |-> 1, h |-> 1, rgb |-> << 0, 39, 16 >>]

NoGrid == [len |-> 0, v |-> 0, src |-> "absent"]

\* variant: unwrap_or_default(), an empty grid when the image does not decode
DecodeBody_emptyFallback(body) ==
    IF IsImage(body)
    THEN [len |-> ImageOf(body).w * ImageOf(body).h,
          v |-> DecodePixel(ImageOf(body).rgb[1], ImageOf(body).rgb[2], ImageOf(body).rgb[3]),
          src |-> body]
    ELSE [len |-> 0, v |-> 0, src |-> body]

\* decode().map(|image| pixels decoded).unwrap_or_else(|_| vec![0.; 256 * 256]):
\* a grid is its length and the elevation of its samples (in hundredths);
\* src remembers the body it was made from
DecodeBody(body) ==
    IF IsImage(body)
    THEN [len |-> ImageOf(body).w * ImageOf(body).h,
          v |-> DecodePixel(ImageOf(body).rgb[1], ImageOf(body).rgb[2], ImageOf(body).rgb[3]),
          src |-> body]
    ELSE [len |-> 256 * 256, v |-> 0, src |-> body]

\* tiles.chunks(batch_size): the indices of the tiles of batch k (0-based)
Chunk(k) ==
    { i \in 1..Len(tiles) : k * cfg.batch < i /\ i <= (k + 1) * cfg.batch }

NumChunks == (Len(tiles) + cfg.batch - 1) \div cfg.batch

\* ZoomLv::parse(zoom_lv)
ZoomLv_parse(z) == IF z \in 0..24 THEN Ok(z) ELSE Err

\* str::parse::<f64>() on the fields that are tried, in thousandths
parse_f64(field) ==
    CASE field = "134.0" -> Ok(134000)
      [] field = "135.0" -> Ok(135000)
      [] field = "33.6" -> Ok(33600)
      [] field = "35.0" -> Ok(35000)
      [] OTHER -> Err

\* variant: the order of the bounds is not checked
AABB_from_str_unordered(s) ==
    IF Len(s) < 4 \/ \E i \in 1..4 : ~parse_f64(s[i]).ok
    THEN Err
    ELSE Ok([min_long |-> parse_f64(s[1]).v, max_long |-> parse_f64(s[2]).v,
             min_lat |-> parse_f64(s[3]).v, max_lat |-> parse_f64(s[4]).v])

\* AABB::from_str: a missing field panics in unwrap, a field that is not a
\* number and bounds out of order are errors; the caller panics on all
AABB_from_str(s) ==
    IF Len(s) < 4 \/ \E i \in 1..4 : ~parse_f64(s[i]).ok
    THEN Err
    ELSE LET a == [min_long |-> parse_f64(s[1]).v, max_long |-> parse_f64(s[2]).v,
                   min_lat |-> parse_f64(s[3]).v, max_lat |-> parse_f64(s[4]).v]
         IN  IF a.min_lat >= a.max_lat \/ a.min_long >= a.max_long THEN Err ELSE Ok(a)

\* pixel2ll of the corner (tile_x * 256, tile_y * 256) of the tile a path
\* names, in thousandths of a degree
TileCorner(url) ==
    CASE url = "1.geojson" -> [long |-> 135000, lat |-> 33843]
      [] url = "2.geojson" -> [long |-> 135005, lat |-> 33843]
      [] OTHER -> [long |-> 135000, lat |-> 33550]

InAabb(url, a) ==
    /\ a.min_long <= TileCorner(url).long /\ TileCorner(url).long <= a.max_long
    /\ a.min_lat <= TileCorner(url).lat /\ TileCorner(url).lat <= a.max_lat

\* Reader::from_path(path).into_records(): the reader takes the first row
\* of the file as the header row and gives the rows after it
into_records(rows) == IF rows = << >> THEN << >> ELSE Tail(rows)

\* read_tile_list: the records whose first field begins with a digit, and
\* with an AABB those whose corner lies in it
DigitLeading(url) == url \in TilePaths
RECURSIVE FilterAabb(_, _)
FilterAabb(urls, a) ==
    IF urls = << >> THEN << >>
    ELSE (IF InAabb(Head(urls), a) THEN << Head(urls) >> ELSE << >>) \o
         FilterAabb(Tail(urls), a)

read_tile_list(rows, aabb) ==
    IF aabb.some
    THEN FilterAabb(SelectSeq(into_records(rows), DigitLeading), AABB_from_str(aabb.s).v)
    ELSE SelectSeq(into_records(rows), DigitLeading)

\* the lines one tile's future returns: the retained features' point lists
RECURSIVE FilterFeatures(_, _, _)
FilterFeatures(features, rcl_flags, ctg_flags) ==
    IF features = << >> THEN << >>
    ELSE LET f == Head(features)
             p == read_property(f.type, f.rivCtg)
             rest == FilterFeatures(Tail(features), rcl_flags, ctg_flags)
         IN  IF Retained(p.rcl, p.ctg, rcl_flags, ctg_flags)
             THEN << f.line >> \o rest
             ELSE rest

PropertiesOk(features) ==
    \A i \in 1..Len(features) : read_property(features[i].type, features[i].rivCtg).ok

\* collect_links: every consecutive pair of every line; the distance is a
\* function of the two points and is kept as the pair
\* variant: chunks(2), the pairs do not overlap
RECURSIVE Windows2_chunks(_)
Windows2_chunks(line) ==
    IF Len(line) < 2 THEN << >>
    ELSE << [start |-> NodeId(line[1]), end |-> NodeId(line[2]),
             dist |-> << line[1], line[2] >>] >> \o Windows2_chunks(Tail(Tail(line)))

RECURSIVE Windows2(_)
Windows2(line) ==
    IF Len(line) < 2 THEN << >>
    ELSE << [start |-> NodeId(line[1]), end |-> NodeId(line[2]),
             dist |-> << line[1], line[2] >>] >> \o Windows2(Tail(line))

RECURSIVE collect_links(_)
collect_links(ls) ==
    IF ls = << >> THEN << >> ELSE Windows2(Head(ls)) \o collect_links(Tail(ls))

NewLookup(pt) ==
    [pt |-> pt, key |-> TileCoord(pt), pc |-> "new", grid |-> NoGrid, alt |-> 0,
     by |-> 0]

NoFile == [exists |-> FALSE, header |-> FALSE, rows |-> << >>]

InitHist ==
    [non2xx |-> FALSE, abort |-> [cause |-> "none", src |-> "none"], started |-> [k \in DemKeys |-> 0],
     nodes_written |-> 0, links_written |-> 0, pre_dedup |-> << >>]

IdleFl == [pc |-> "idle"]
IdleDm == [pc |-> "idle"]
IdleTl == [pc |-> "idle"]
IdleLk == [pc |-> "idle"]
IdleHb == [pc |-> "idle"]
IdleRn == [pc |-> "idle"]

Init ==
    /\ cfg \in Configs
    /\ pc = "start"
    /\ rv_rcl_flags = FlagEmpty
    /\ rv_ctg_flags = FlagEmpty
    /\ tiles = << >>
    /\ batch_i = 0
    /\ fstate = << >>
    /\ fres = << >>
    /\ lines = << >>
    /\ links = << >>
    /\ lookups = << >>
    /\ cache = [k \in DemKeys |-> NoGrid]
    /\ nodes_file = NoFile
    /\ links_file = NoFile
    /\ hist = InitHist
    /\ fl = IdleFl
    /\ dm = IdleDm
    /\ tl = IdleTl
    /\ lk = IdleLk
    /\ hb = IdleHb
    /\ rn = IdleRn

\* a panic: the process ends where it is
Abort(h, cause) ==
    /\ pc' = "aborted"
    /\ hist' = [h EXCEPT !.abort = [cause |-> cause, src |-> "none"]]

\* the panic of an index outside the grid g
AbortIndex(h, g) ==
    /\ pc' = "aborted"
    /\ hist' = [h EXCEPT !.abort = [cause |-> "index", src |-> g.src]]

\* ------------------------------------------------- collect_river_data
\* variant: the rows of a batch are not awaited before the next batch
AfterPhase_noAwait(p) ==
    CASE p = "fetch_ml" -> "next"
      [] p = "collect_nodes" -> "write_nodes"
      [] p = "write_nodes" -> "write_links"
      [] p = "write_links" -> "next"

\* variant: the links are written as soon as they are collected
AfterPhase_linksFirst(p) ==
    CASE p = "fetch_ml" -> "write_links"
      [] p = "write_links" -> "collect_nodes"
      [] p = "collect_nodes" -> "write_nodes"
      [] p = "write_nodes" -> "next"

\* the order of the steps of one iteration of the batch loop
AfterPhase(p) ==
    CASE p = "fetch_ml" -> "collect_nodes"
      [] p = "collect_nodes" -> "write_nodes"
      [] p = "write_nodes" -> "write_links"
      [] p = "write_links" -> "next"

\* parse_flag_list of both lists, then read_tile_list
ParseArgs ==
    /\ pc = "start"
    /\ LET c == parse_flag_list("ctg", cfg.category)
           l == parse_flag_list("rcl", cfg.line)
           z == ZoomLv_parse(cfg.zoom_lv)
           a == IF cfg.aabb.some THEN AABB_from_str(cfg.aabb.s) ELSE Ok(cfg.aabb)
       IN  IF ~c.ok \/ ~l.ok \/ ~z.ok \/ ~a.ok
           THEN /\ Abort(hist, "config")
                /\ UNCHANGED << rv_rcl_flags, rv_ctg_flags, tiles, fstate, fres >>
           ELSE /\ rv_ctg_flags' = c.v
                /\ rv_rcl_flags' = l.v
                /\ tiles' = read_tile_list(cfg.mokuroku, cfg.aabb)
                /\ fstate' = [i \in 1..Len(tiles') |-> "new"]
                /\ fres' = [i \in 1..Len(tiles') |-> << >>]
                /\ pc' = "headers"
                /\ hist' = hist
    /\ UNCHANGED << cfg, batch_i, lines, links, lookups, cache, nodes_file,
                    links_file, fl, dm, tl, lk, hb, rn >>

\* write_nodes_header and write_link_header: create or truncate, write the header
WriteHeaders ==
    /\ pc = "headers"
    /\ nodes_file' = [exists |-> TRUE, header |-> TRUE, rows |-> << >>]
    /\ links_file' = [exists |-> TRUE, header |-> TRUE, rows |-> << >>]
    /\ pc' = IF NumChunks = 0 THEN "dedup" ELSE "fetch_ml"
    /\ UNCHANGED << cfg, rv_rcl_flags, rv_ctg_flags, tiles, batch_i, fstate, fres,
                    lines, links, lookups, cache, hist, fl, dm, tl, lk, hb, rn >>

\* ------------------------------------------------------------- fetch_ml
\* the futures of join_all are polled in order: client.get(&url).send()
SendTile(i) ==
    /\ pc = "fetch_ml"
    /\ i \in Chunk(batch_i)
    /\ fstate[i] = "new"
    /\ \A j \in Chunk(batch_i) : j < i => fstate[j] # "new"
    /\ fstate' = [fstate EXCEPT ![i] = "sent"]
    /\ UNCHANGED << cfg, pc, rv_rcl_flags, rv_ctg_flags, tiles, batch_i, fres,
                    lines, links, lookups, cache, nodes_file, links_file, hist,
                    fl, dm, tl, lk, hb, rn >>

\* the answer to the request of tile i: send() and text() may fail, the body
\* is parsed as GeoJSON, the features are filtered; the status is not read
RecvTile(i, resp) ==
    /\ pc = "fetch_ml"
    /\ i \in Chunk(batch_i)
    /\ fstate[i] = "sent"
    /\ LET h == [hist EXCEPT !.non2xx = @ \/ (~resp.err /\ resp.status # 200)]
           features == TileBody(tiles[i])
       IN  CASE resp.err ->
                  Abort(h, "river_fetch") /\ UNCHANGED << fstate, fres >>
             [] ~resp.err /\ resp.body # "geojson" ->
                  Abort(h, "geojson") /\ UNCHANGED << fstate, fres >>
             [] ~resp.err /\ resp.body = "geojson" /\ ~PropertiesOk(features) ->
                  Abort(h, "property") /\ UNCHANGED << fstate, fres >>
             [] OTHER ->
                  /\ fres' = [fres EXCEPT ![i] =
                                 FilterFeatures(features, rv_rcl_flags, rv_ctg_flags)]
                  /\ fstate' = [fstate EXCEPT ![i] = "done"]
                  /\ hist' = h
                  /\ pc' = pc
    /\ UNCHANGED << cfg, rv_rcl_flags, rv_ctg_flags, tiles, batch_i, lines, links,
                    lookups, cache, nodes_file, links_file, fl, dm, tl, lk, hb, rn >>

ChunkSeq(k) == [n \in 1..Cardinality(Chunk(k)) |-> k * cfg.batch + n]

\* join_all(futures).await, result flattened in tile order; then
\* collect_links(&lines) and the futures of collect_nodes are made
FetchJoin ==
    /\ pc = "fetch_ml"
    /\ \A i \in Chunk(batch_i) : fstate[i] = "done"
    /\ lines' = Flatten([n \in 1..Len(ChunkSeq(batch_i)) |-> fres[ChunkSeq(batch_i)[n]]])
    /\ links' = collect_links(lines')
    /\ lookups' = [n \in 1..Len(Flatten(lines')) |-> NewLookup(Flatten(lines')[n])]
    /\ fres' = [i \in 1..Len(tiles) |-> << >>]
    /\ pc' = AfterPhase("fetch_ml")
    /\ UNCHANGED << cfg, rv_rcl_flags, rv_ctg_flags, tiles, batch_i, fstate,
                    cache, nodes_file, links_file, hist, fl, dm, tl, lk, hb, rn >>

\* --------------------------------------------------------- collect_nodes
\* cache.entry(tile_coord).or_insert_with(init): a lookup that finds another
\* lookup's init of the same key running waits for its value
\* variant: get, then fetch and insert, without joining a running init
Joins_never(k) == FALSE

Joins(k) == \E j \in 1..Len(lookups) : lookups[j].pc = "fetch" /\ lookups[j].key = k

\* the lookup whose init of key k is running (history: by remembers it)
Initer(k) == CHOOSE j \in 1..Len(lookups) : lookups[j].pc = "fetch" /\ lookups[j].key = k

\* altitude_map[(local_y * 256 + local_x) as usize]
InBounds(pt, g) == LocalIndex(pt) < g.len

Finished(l, g) == [l EXCEPT !.pc = "done", !.grid = g, !.alt = g.v]

\* first poll of the future of point i (the futures are polled in order)
LookupStart(i) ==
    /\ pc = "collect_nodes"
    /\ i \in 1..Len(lookups)
    /\ lookups[i].pc = "new"
    /\ \A j \in 1..Len(lookups) : j < i => lookups[j].pc # "new"
    /\ LET k == lookups[i].key
       IN  IF cache[k] # NoGrid
           THEN IF InBounds(lookups[i].pt, cache[k])
                THEN /\ lookups' = [lookups EXCEPT ![i] = Finished(@, cache[k])]
                     /\ UNCHANGED << pc, hist >>
                ELSE /\ AbortIndex(hist, cache[k])
                     /\ UNCHANGED lookups
           ELSE IF Joins(k)
                THEN /\ lookups' = [lookups EXCEPT ![i].pc = "wait", ![i].by = Initer(k)]
                     /\ UNCHANGED << pc, hist >>
                ELSE /\ lookups' = [lookups EXCEPT ![i].pc = "fetch", ![i].by = i]
                     /\ hist' = [hist EXCEPT !.started[k] = @ + 1]
                     /\ pc' = pc
    /\ UNCHANGED << cfg, rv_rcl_flags, rv_ctg_flags, tiles, batch_i, fstate, fres,
                    lines, links, cache, nodes_file, links_file, fl, dm, tl, lk, hb, rn >>

\* the answer to the DEM request of the init of lookup i: send() and bytes()
\* may fail; the body is decoded (or replaced by zeros), the grid is
\* inserted, the waiting lookups are handed the same grid, lookup i reads
\* its altitude; the status is not read
DemRecv(i, resp) ==
    /\ pc = "collect_nodes"
    /\ i \in 1..Len(lookups)
    /\ lookups[i].pc = "fetch"
    /\ LET k == lookups[i].key
           h == [hist EXCEPT !.non2xx = @ \/ (~resp.err /\ resp.status # 200)]
           g == DecodeBody(resp.body)
       IN  IF resp.err
           THEN Abort(h, "dem_fetch") /\ UNCHANGED << lookups, cache >>
           ELSE /\ cache' = [cache EXCEPT ![k] = g]
                /\ lookups' = [j \in 1..Len(lookups) |->
                        IF j = i
                        THEN IF InBounds(lookups[j].pt, g)
                             THEN Finished(lookups[j], g)
                             ELSE [lookups[j] EXCEPT !.pc = "panic", !.grid = g]
                        ELSE IF lookups[j].pc = "wait" /\ lookups[j].key = k
                        THEN [lookups[j] EXCEPT !.pc = "have", !.grid = g]
                        ELSE lookups[j]]
                /\ IF InBounds(lookups[i].pt, g)
                   THEN hist' = h /\ pc' = pc
                   ELSE AbortIndex(h, g)
    /\ UNCHANGED << cfg, rv_rcl_flags, rv_ctg_flags, tiles, batch_i, fstate, fres,
                    lines, links, nodes_file, links_file, fl, dm, tl, lk, hb, rn >>

\* a lookup that waited is polled again and reads its altitude
WaiterResume(i) ==
    /\ pc = "collect_nodes"
    /\ i \in 1..Len(lookups)
    /\ lookups[i].pc = "have"
    /\ IF InBounds(lookups[i].pt, lookups[i].grid)
       THEN /\ lookups' = [lookups EXCEPT ![i] = Finished(@, lookups[i].grid)]
            /\ UNCHANGED << pc, hist >>
       ELSE /\ AbortIndex(hist, lookups[i].grid)
            /\ UNCHANGED lookups
    /\ UNCHANGED << cfg, rv_rcl_flags, rv_ctg_flags, tiles, batch_i, fstate, fres,
                    lines, links, cache, nodes_file, links_file, fl, dm, tl, lk, hb, rn >>

\* max_capacity(50): an entry is evicted to make room for tiles of other
\* points of the batch (the tiles that are not followed here)
Evict(k) ==
    /\ pc = "collect_nodes"
    /\ cache[k] # NoGrid
    /\ cache' = [cache EXCEPT ![k] = NoGrid]
    /\ hist' = [hist EXCEPT !.started[k] = 0]
    /\ UNCHANGED << cfg, pc, rv_rcl_flags, rv_ctg_flags, tiles, batch_i, fstate,
                    fres, lines, links, lookups, nodes_file, links_file, fl, dm, tl, lk, hb, rn >>

\* join_all(futures).await of collect_nodes
CollectNodesJoin ==
    /\ pc = "collect_nodes"
    /\ \A j \in 1..Len(lookups) : lookups[j].pc = "done"
    /\ pc' = AfterPhase("collect_nodes")
    /\ UNCHANGED << cfg, rv_rcl_flags, rv_ctg_flags, tiles, batch_i, fstate, fres,
                    lines, links, lookups, cache, nodes_file, links_file, hist,
                    fl, dm, tl, lk, hb, rn >>

\* ------------------------------------------------------------ the files
\* variant: the rows are put before the rows of the file
AppendRows_front(old, new) == new \o old

\* OpenOptions::new().create(true).append(true), write_all
AppendRows(old, new) == old \o new

NodeRow(l, b) ==
    [id |-> NodeId(l.pt), loc |-> l.pt, alt |-> l.alt, label |-> "RiverNode", batch |-> b]

LinkRow(ln, b) ==
    [start |-> ln.start, end |-> ln.end, type |-> "RIVER_LINK", length |-> ln.dist,
     batch |-> b]

\* write_nodes: the rows of the batch are appended
WriteNodes ==
    /\ pc = "write_nodes"
    /\ nodes_file' = [nodes_file EXCEPT !.exists = TRUE, !.rows =
                         AppendRows(@, [n \in 1..Len(lookups) |-> NodeRow(lookups[n], batch_i)])]
    /\ hist' = [hist EXCEPT !.nodes_written = @ + 1]
    /\ pc' = AfterPhase("write_nodes")
    /\ UNCHANGED << cfg, rv_rcl_flags, rv_ctg_flags, tiles, batch_i, fstate, fres,
                    lines, links, lookups, cache, links_file, fl, dm, tl, lk, hb, rn >>

\* write_links: the rows of the batch are appended
WriteLinks ==
    /\ pc = "write_links"
    /\ links_file' = [links_file EXCEPT !.exists = TRUE, !.rows =
                         AppendRows(@, [n \in 1..Len(links) |-> LinkRow(links[n], batch_i)])]
    /\ hist' = [hist EXCEPT !.links_written = @ + 1]
    /\ pc' = AfterPhase("write_links")
    /\ UNCHANGED << cfg, rv_rcl_flags, rv_ctg_flags, tiles, batch_i, fstate, fres,
                    lines, links, lookups, cache, nodes_file, fl, dm, tl, lk, hb, rn >>

\* end of one iteration of the for loop over tiles.chunks(batch_size): the
\* lines, links and nodes of the batch are dropped; after the last batch
\* nothing reads the cache any more, and it is left out from there on
NextBatch ==
    /\ pc = "next"
    /\ IF batch_i + 1 < NumChunks
       THEN /\ batch_i' = batch_i + 1
            /\ pc' = "fetch_ml"
            /\ UNCHANGED << cache, hist >>
       ELSE /\ batch_i' = batch_i
            /\ pc' = "dedup"
            /\ cache' = [k \in DemKeys |-> NoGrid]
            /\ hist' = [hist EXCEPT !.started = [k \in DemKeys |-> 0]]
    /\ lines' = << >>
    /\ links' = << >>
    /\ lookups' = << >>
    /\ UNCHANGED << cfg, rv_rcl_flags, rv_ctg_flags, tiles, fstate, fres,
                    nodes_file, links_file, fl, dm, tl, lk, hb, rn >>

\* ------------------------------------------------------ deduplicate_nodes
RowIds(rows) == { rows[n].id : n \in 1..Len(rows) }

\* variant: the rows are made unique on the location column
UniqueAny_byLocation(rows) ==
    LET locs == { rows[n].loc : n \in 1..Len(rows) }
    IN  { q \in [1..Cardinality(locs) -> 1..Len(rows)] :
            \A a, b \in 1..Cardinality(locs) :
                a # b => rows[q[a]].loc # rows[q[b]].loc }

\* unique(subset = ["hilbert18:ID"], keep = Any): for every ID one of its
\* rows, whichever, in whatever order; given as the indices of the kept rows
UniqueAny(rows) ==
    { q \in [1..Cardinality(RowIds(rows)) -> 1..Len(rows)] :
        \A a, b \in 1..Cardinality(RowIds(rows)) :
            a # b => rows[q[a]].id # rows[q[b]].id }

\* the file is read, deduplicated and written again (truncate)
Dedup ==
    /\ pc = "dedup"
    /\ \E q \in UniqueAny(nodes_file.rows) :
          nodes_file' = [nodes_file EXCEPT !.rows = [n \in 1..Len(q) |-> nodes_file.rows[q[n]]]]
    /\ hist' = [hist EXCEPT !.pre_dedup = nodes_file.rows]
    /\ pc' = "append_bounds"
    /\ UNCHANGED << cfg, rv_rcl_flags, rv_ctg_flags, tiles, batch_i, fstate, fres,
                    lines, links, lookups, cache, links_file, fl, dm, tl, lk, hb, rn >>

\* ---------------------------------------------------------- append_bounds
\* AABB::default(), its corners given as pixel cells at the identity zoom
\* (x of the longitude, y of the latitude)
DefaultAABB ==
    [min_long |-> 62259989, max_long |-> 56470710,
     min_lat |-> 23993117, max_lat |-> 29663577]

\* ll2pixel at the identity zoom of the bounds that are tried
AabbPixels(a) ==
    [min_long |-> IF a.min_long = 134000 THEN 58533842 ELSE 58720256,
     max_long |-> IF a.max_long = 134000 THEN 58533842 ELSE 58720256,
     min_lat |-> IF a.min_lat = 33600 THEN 26897608 ELSE 26581675,
     max_lat |-> IF a.max_lat = 33600 THEN 26897608 ELSE 26581675]

\* aabb.unwrap_or_default()
RunAabb ==
    IF cfg.aabb.some THEN AabbPixels(AABB_from_str(cfg.aabb.s).v) ELSE DefaultAABB

BoundRow(id_long, id_lat, long, lat) ==
    [id |-> calc_hilbert_index(id_long, id_lat), loc |-> [x |-> long, y |-> lat, sub |-> 0],
     alt |-> 0, label |-> "BoundNode", batch |-> NumChunks]

\* variant: only the two diagonal corners are appended
BoundRows_diagonal(aabb) ==
    << BoundRow(aabb.max_long, aabb.max_lat, aabb.min_long, aabb.min_lat),
       BoundRow(aabb.min_long, aabb.min_lat, aabb.max_long, aabb.max_lat) >>

BoundRows(aabb) ==
    << BoundRow(aabb.max_long, aabb.max_lat, aabb.min_long, aabb.min_lat),
       BoundRow(aabb.min_long, aabb.max_lat, aabb.max_long, aabb.min_lat),
       BoundRow(aabb.max_long, aabb.min_lat, aabb.min_long, aabb.max_lat),
       BoundRow(aabb.min_long, aabb.min_lat, aabb.max_long, aabb.max_lat) >>

\* the 4 corner rows are appended to the deduplicated file
AppendBounds ==
    /\ pc = "append_bounds"
    /\ nodes_file' = [nodes_file EXCEPT !.rows = AppendRows(@, BoundRows(RunAabb))]
    /\ pc' = "done"
    /\ UNCHANGED << cfg, rv_rcl_flags, rv_ctg_flags, tiles, batch_i, fstate, fres,
                    lines, links, lookups, cache, links_file, hist, fl, dm, tl, lk, hb, rn >>

\* ---------------------------------------------------------- specification
Next ==
    \/ ParseArgs
    \/ WriteHeaders
    \/ \E i \in 1..MaxTiles : SendTile(i)
    \/ \E i \in 1..MaxTiles, resp \in RiverResponses : RecvTile(i, resp)
    \/ FetchJoin
    \/ \E i \in 1..Len(lookups) : LookupStart(i)
    \/ \E i \in 1..Len(lookups), resp \in DemResponses : DemRecv(i, resp)
    \/ \E i \in 1..Len(lookups) : WaiterResume(i)
    \/ \E k \in DemKeys : Evict(k)
    \/ CollectNodesJoin
    \/ WriteNodes
    \/ WriteLinks
    \/ NextBatch
    \/ Dedup
    \/ AppendBounds

Spec == Init /\ [][Next]_vars

\* ----------------------------------------- flag parsing and filter alone
\* the run is not started
RunOff ==
    /\ cfg = [mokuroku |-> << >>, batch |-> 1, line |-> << "all" >>,
              category |-> << "all" >>, zoom_lv |-> 14, aabb |-> NoAabb]
    /\ pc = "off"
    /\ rv_rcl_flags = FlagEmpty
    /\ rv_ctg_flags = FlagEmpty
    /\ tiles = << >>
    /\ batch_i = 0
    /\ fstate = << >>
    /\ fres = << >>
    /\ lines = << >>
    /\ links = << >>
    /\ lookups = << >>
    /\ cache = [k \in DemKeys |-> NoGrid]
    /\ nodes_file = NoFile
    /\ links_file = NoFile
    /\ hist = InitHist

RclTokens ==
    { "saikasen-tsujo", "saikasen-kare", "chushin-tsujo", "chushin-kare", "jinko-kukan",
      "jinko-chika", "yosuiro", "sonota", "fumei", "", "sn", "sd", "n", "d", "ao", "au",
      "w", "o", "u", "all" }
CtgTokens ==
    { "ikkyu", "nikyu", "junyo", "futsu", "sonota", "fumei", "", "p", "s", "q", "r",
      "o", "u", "all" }
Tokens == RclTokens \cup CtgTokens \cup { "zz", "ALL" }

TokenLists == UNION { [1..m -> Tokens] : m \in 1..MaxTokens }

\* the values of the GeoJSON properties "type" and "rivCtg" that are tried
TypeProps ==
    { "saikasen-tsujo", "saikasen-kare", "chushin-tsujo", "chushin-kare", "jinko-kukan",
      "jinko-chika", "yosuiro", "sonota", "fumei", "", "all", "zz" }
CtgProps == { "ikkyu", "nikyu", "junyo", "futsu", "sonota", "fumei", "", "all", "zz" }

\* the requested flag sets that are tried: what parse_flag_list gives for
\* the lists over a few of the short forms
RclRequests ==
    { parse_flag_list("rcl", l).v :
        l \in UNION { [1..m -> { "sn", "n", "au", "u", "all" }] : m \in 1..MaxTokens } }
CtgRequests ==
    { parse_flag_list("ctg", l).v :
        l \in UNION { [1..m -> { "p", "u", "all" }] : m \in 1..MaxTokens } }

InitFlags ==
    /\ RunOff
    /\ dm = IdleDm
    /\ tl = IdleTl /\ lk = IdleLk /\ hb = IdleHb /\ rn = IdleRn
    /\ \/ fl \in [pc : { "list" }, kind : { "rcl", "ctg" }, list : TokenLists]
       \/ fl \in [pc : { "feature" }, type : TypeProps, rivCtg : CtgProps,
                  rcl_flags : RclRequests, ctg_flags : CtgRequests]

\* parse_flag_list::<T>(s) on one list
ParseFlagList ==
    /\ fl.pc = "list"
    /\ fl' = [pc |-> "parsed", kind |-> fl.kind, list |-> fl.list,
              res |-> parse_flag_list(fl.kind, fl.list)]
    /\ UNCHANGED << runVars, dm, tl, lk, hb, rn >>

\* the closure of filter_map in fetch_ml on one feature, up to the test
FilterFeature ==
    /\ fl.pc = "feature"
    /\ LET p == read_property(fl.type, fl.rivCtg)
       IN  fl' = IF ~p.ok
                 THEN [pc |-> "panic", type |-> fl.type, rivCtg |-> fl.rivCtg,
                       rcl_flags |-> fl.rcl_flags, ctg_flags |-> fl.ctg_flags]
                 ELSE [pc |-> "filtered", type |-> fl.type, rivCtg |-> fl.rivCtg,
                       rcl_flags |-> fl.rcl_flags, ctg_flags |-> fl.ctg_flags,
                       rv_rcl_type |-> p.rcl, riv_ctg |-> p.ctg,
                       keep |-> Retained(p.rcl, p.ctg, fl.rcl_flags, fl.ctg_flags)]
    /\ UNCHANGED << runVars, dm, tl, lk, hb, rn >>

NextFlags == ParseFlagList \/ FilterFeature

SpecFlags == InitFlags /\ [][NextFlags]_vars

\* ------------------------------------------------------- DEM decode alone
Channels == (0..Near) \cup ((128 - Near)..(128 + Near)) \cup ((255 - Near)..255)

InitDem ==
    /\ RunOff
    /\ fl = IdleFl
    /\ tl = IdleTl /\ lk = IdleLk /\ hb = IdleHb /\ rn = IdleRn
    /\ dm \in [pc : { "pixel" }, r : Channels, g : Channels, b : Channels]

\* the closure of pixels().map in collect_nodes on one pixel
DecodeOne ==
    /\ dm.pc = "pixel"
    /\ dm' = [pc |-> "decoded", r |-> dm.r, g |-> dm.g, b |-> dm.b,
              alt |-> DecodePixel(dm.r, dm.g, dm.b)]
    /\ UNCHANGED << runVars, fl, tl, lk, hb, rn >>

NextDem == DecodeOne

SpecDem == InitDem /\ [][NextDem]_vars

\* ------------------------------------------------------------ tile_locator
MaxZoomLv == 2

\* the nodes of river_node.csv as read_nodes returns them; a position is
\* given as the pixel it has at the zoom level FineZoom, and ll2pixel at a
\* zoom level z <= FineZoom is that pixel divided by 2^(FineZoom - z)
FineZoom == MaxZoomLv + 3
World == TileSide * Pow2(FineZoom)
Centre == (5 * World) \div 8

Node(id, x, y) == [id |-> id, x |-> x, y |-> y]

NodePool ==
    { Node(1, 0, 0), Node(2, World - 1, 0), Node(3, 0, World - 1),
      Node(4, World - 1, World - 1),
      Node(5, Centre + 1, Centre + 1), Node(6, Centre + 6, Centre + 2),
      Node(7, Centre + 3, Centre + 7),
      Node(8, World \div 4 + 40, World \div 8) }

\* ll2pixel(ll_rad, max_zoomlv)
PixelOf(n, z) == << n.x \div Pow2(FineZoom - z), n.y \div Pow2(FineZoom - z) >>

\* twice the signed area of the triangle a, b, c of node positions
Area2(a, b, c) == (b.x - a.x) * (c.y - a.y) - (b.y - a.y) * (c.x - a.x)

FaceKey(f) == f[1].id * 100 + f[2].id * 10 + f[3].id
FaceNodes(f) == { f[1], f[2], f[3] }

\* inner_faces(): a face is the sequence of its 3 vertices, not collinear
Triangles ==
    { f \in NodePool \X NodePool \X NodePool :
        /\ f[1].id < f[2].id /\ f[2].id < f[3].id
        /\ Area2(f[1], f[2], f[3]) # 0 }

\* a and b lie strictly on opposite sides of the line through p and q
Opposite(p, q, a, b) ==
    \/ Area2(p, q, a) > 0 /\ Area2(p, q, b) < 0
    \/ Area2(p, q, a) < 0 /\ Area2(p, q, b) > 0

\* the two faces of a convex quadrilateral cut along one of its diagonals
ConvexPair(f, g) ==
    /\ FaceKey(f) < FaceKey(g)
    /\ Cardinality(FaceNodes(f) \cap FaceNodes(g)) = 2
    /\ LET shared == FaceNodes(f) \cap FaceNodes(g)
           p == CHOOSE n \in shared : TRUE
           q == CHOOSE n \in shared : n # p
           a == CHOOSE n \in FaceNodes(f) : n \notin shared
           b == CHOOSE n \in FaceNodes(g) : n \notin shared
       IN  Opposite(p, q, a, b) /\ Opposite(a, b, p, q)

\* the triangulations that are tried
Triangulations ==
    { << f >> : f \in Triangles } \cup
    { fg \in { << f, g >> : f \in Triangles, g \in Triangles } :
        ConvexPair(fg[1], fg[2]) }

ZoomLevels == 0..MaxZoomLv

Max(a, b) == IF a > b THEN a ELSE b

\* cross_product(p1, p2, p) on pixels (i64 arithmetic, no overflow)
cross_product(p1, p2, p) ==
    (p2[1] - p1[1]) * (p[2] - p1[2]) - (p2[2] - p1[2]) * (p[1] - p1[1])

\* variant: only the counter-clockwise sign is accepted
CornerPasses_oneSign(tri, p) ==
    /\ cross_product(tri[1], tri[2], p) >= 0
    /\ cross_product(tri[2], tri[3], p) >= 0
    /\ cross_product(tri[3], tri[1], p) >= 0

\* the closure of any(): the sign-consistent test of one corner
CornerPasses(tri, p) ==
    LET cross1 == cross_product(tri[1], tri[2], p)
        cross2 == cross_product(tri[2], tri[3], p)
        cross3 == cross_product(tri[3], tri[1], p)
    IN  \/ cross1 >= 0 /\ cross2 >= 0 /\ cross3 >= 0
        \/ cross1 <= 0 /\ cross2 <= 0 /\ cross3 <= 0

\* tile_aabb: the 4 corners of a tile, in pixels
TileCorners(t) ==
    { << t[1] * 256, t[2] * 256 >>, << (t[1] + 1) * 256, t[2] * 256 >>,
      << t[1] * 256, (t[2] + 1) * 256 >>, << (t[1] + 1) * 256, (t[2] + 1) * 256 >> }

is_contained(tri, t) == \E p \in TileCorners(t) : CornerPasses(tri, p)

\* tri_vertices of a face at zoom z
TriVertices(f, z) == << PixelOf(f[1], z), PixelOf(f[2], z), PixelOf(f[3], z) >>

\* check_tile_list: the tiles of the bounding box of the projected vertices
check_tile_list(tri) ==
    LET max_x == Max(Max(tri[1][1], tri[2][1]), tri[3][1])
        min_x == Min(Min(tri[1][1], tri[2][1]), tri[3][1])
        max_y == Max(Max(tri[1][2], tri[2][2]), tri[3][2])
        min_y == Min(Min(tri[1][2], tri[2][2]), tri[3][2])
    IN  ((min_x \div 256)..(max_x \div 256)) \X ((min_y \div 256)..(max_y \div 256))

\* the tiles one face is recorded for
FaceTiles(f, z) ==
    { t \in check_tile_list(TriVertices(f, z)) : is_contained(TriVertices(f, z), t) }

FaceIds(f) == << f[1].id, f[2].id, f[3].id >>

TileId(t, z) == << t[1], t[2], z >>

\* variant: the parent is rounded up
ParentTile_roundUp(t) == << (t[1] + 1) \div 2, (t[2] + 1) \div 2 >>

\* parent_tile = (x / 2, y / 2)
ParentTile(t) == << t[1] \div 2, t[2] \div 2 >>

\* the MEMBER rows of tile_and_node: one for every element of every Vec
MemberRows(tan, z) ==
    LET rows == UNION { { [start |-> TileId(t, z), end |-> tan[t][i], type |-> "MEMBER"] :
                            i \in 1..Len(tan[t]) } : t \in DOMAIN tan }
    IN  [r \in rows |->
            Cardinality({ i \in 1..Len(tan[<< r.start[1], r.start[2] >>]) :
                            tan[<< r.start[1], r.start[2] >>][i] = r.end })]

TileRows(ts, z) ==
    SetToBag({ [id |-> TileId(t, z), label |-> z, x |-> t[1], y |-> t[2]] : t \in ts })

ChildRows(ts, z) ==
    SetToBag({ [start |-> TileId(ParentTile(t), z - 1), end |-> TileId(t, z),
                type |-> "CHILD"] : t \in ts })

NoMap == [t \in { } |-> << >>]

InitTiles ==
    /\ RunOff
    /\ fl = IdleFl /\ dm = IdleDm /\ lk = IdleLk /\ hb = IdleHb /\ rn = IdleRn
    /\ \E z \in ZoomLevels, faces \in Triangulations :
          tl = [pc |-> "faces", max_zoomlv |-> z, faces |-> faces, fi |-> 1,
                tile_and_node |-> NoMap, recorded |-> { },
                membership_file |-> EmptyBag,
                tiles |-> { }, tiles_file |-> EmptyBag, family_file |-> EmptyBag,
                zoom |-> z]

\* one pass of the closure of inner_faces().for_each; recorded remembers
\* which face was recorded for which tile (history, not program state)
ProcessFace ==
    /\ tl.pc = "faces"
    /\ tl.fi <= Len(tl.faces)
    /\ LET f == tl.faces[tl.fi]
           hit == FaceTiles(f, tl.max_zoomlv)
           old == tl.tile_and_node
       IN  tl' = [tl EXCEPT !.fi = @ + 1,
                            !.recorded = @ \cup { << tl.fi, t >> : t \in hit },
                            !.tile_and_node =
                                [t \in (DOMAIN old) \cup hit |->
                                    (IF t \in DOMAIN old THEN old[t] ELSE << >>) \o
                                    (IF t \in hit THEN FaceIds(f) ELSE << >>)]]
    /\ UNCHANGED << runVars, fl, dm, lk, hb, rn >>

\* the rows of tile_membership.csv
WriteMembership ==
    /\ tl.pc = "faces"
    /\ tl.fi > Len(tl.faces)
    /\ tl' = [tl EXCEPT !.pc = "top",
                        !.membership_file = MemberRows(tl.tile_and_node, tl.max_zoomlv)]
    /\ UNCHANGED << runVars, fl, dm, lk, hb, rn >>

\* tiles = the keys of tile_and_node, written as the tiles of max_zoomlv
WriteTopTiles ==
    /\ tl.pc = "top"
    /\ tl' = [tl EXCEPT !.pc = "levels",
                        !.tiles = DOMAIN tl.tile_and_node,
                        !.tiles_file = TileRows(DOMAIN tl.tile_and_node, tl.max_zoomlv),
                        !.zoom = tl.max_zoomlv]
    /\ UNCHANGED << runVars, fl, dm, lk, hb, rn >>

\* one pass of (1..=max_zoomlv).rev().for_each
LevelStep ==
    /\ tl.pc = "levels"
    /\ tl.zoom >= 1
    /\ LET parent_tiles == { ParentTile(t) : t \in tl.tiles }
       IN  tl' = [tl EXCEPT !.family_file = @ (+) ChildRows(tl.tiles, tl.zoom),
                            !.tiles_file = @ (+) TileRows(parent_tiles, tl.zoom - 1),
                            !.tiles = parent_tiles,
                            !.zoom = @ - 1]
    /\ UNCHANGED << runVars, fl, dm, lk, hb, rn >>

\* the writers are dropped at the end of tile_locator
FinishTiles ==
    /\ tl.pc = "levels"
    /\ tl.zoom = 0
    /\ tl' = [tl EXCEPT !.pc = "done"]
    /\ UNCHANGED << runVars, fl, dm, lk, hb, rn >>

NextTiles ==
    \/ ProcessFace
    \/ WriteMembership
    \/ WriteTopTiles
    \/ LevelStep
    \/ FinishTiles

SpecTiles == InitTiles /\ [][NextTiles]_vars

\* ================================================================ claims
Bit(v, b) == (v \div Pow2(b)) % 2 = 1
SingleBit(v) == Cardinality({ b \in 0..15 : Bit(v, b) }) = 1

Recognized(kind) == IF kind = "rcl" THEN RclTokens ELSE CtgTokens
NamedFlags(kind) ==
    IF kind = "rcl"
    THEN { RCL_SMALL_NORMAL, RCL_SMALL_DRY, RCL_NORMAL, RCL_DRY, RCL_ARTIFICIAL_OPEN,
           RCL_ARTIFICIAL_UNDERGROUND, RCL_WATERWAY, RCL_OTHER, RCL_UNKNOWN }
    ELSE { CTG_PRIMARY, CTG_SECONDARY, CTG_QUASI, CTG_REGULAR, CTG_OTHER, CTG_UNKNOWN }
UnknownOf(kind) == IF kind = "rcl" THEN RCL_UNKNOWN ELSE CTG_UNKNOWN
OtherOf(kind) == IF kind = "rcl" THEN RCL_OTHER ELSE CTG_OTHER

\* the parts of the flag parsing claim that do not depend on "sonota"
ParseCommon ==
    /\ fl.list = << "all" >> =>
          /\ fl.res.ok
          /\ \A f \in NamedFlags(fl.kind) : FlagContains(fl.res.v, f)
          /\ fl.res.v < Pow2(Cardinality(NamedFlags(fl.kind)))
    /\ fl.list \in { << "" >>, << "fumei" >> } => fl.res = Ok(UnknownOf(fl.kind))
    /\ (\E i \in 1..Len(fl.list) : fl.list[i] \notin Recognized(fl.kind)) => ~fl.res.ok
    /\ (\A i \in 1..Len(fl.list) : fl.list[i] \in Recognized(fl.kind)) =>
          /\ fl.res.ok
          /\ \A b \in 0..15 :
                Bit(fl.res.v, b) <=>
                    \E i \in 1..Len(fl.list) : Bit(from_str(fl.kind, fl.list[i]).v, b)

\* C8 as stated: "all" parses to the full flag set; "", "fumei" (不明) and
\* "sonota" (その他) each parse to UNKNOWN; a token outside the recognized set
\* is an error; parse_flag_list returns the union of the parsed tokens.
C8_AsStated ==
    fl.pc = "parsed" =>
        /\ ParseCommon
        /\ fl.list = << "sonota" >> => fl.res = Ok(UnknownOf(fl.kind))

\* C8 amended: as stated, except that "sonota" (その他) parses to the OTHER
\* flag of its type, not to UNKNOWN.
C8_FlagParsing ==
    fl.pc = "parsed" =>
        /\ ParseCommon
        /\ fl.list = << "sonota" >> => fl.res = Ok(OtherOf(fl.kind))

C8_Witness ==
    /\ fl.pc = "parsed"
    /\ fl.list = << "sonota", "fumei" >>
    /\ fl.res.ok
    /\ fl.res.v = OtherOf(fl.kind) + UnknownOf(fl.kind)

\* C7 as stated: a feature is retained if and only if its line-type value
\* shares a bit with the requested line flags and its category value shares
\* a bit with the requested category flags, for every value the parser returns.
C7_AsStated ==
    fl.pc = "filtered" =>
        (fl.keep <=> /\ FlagIntersects(fl.rcl_flags, fl.rv_rcl_type)
                     /\ FlagIntersects(fl.ctg_flags, fl.riv_ctg))

\* C7 amended: a feature is retained if and only if every bit of its
\* line-type value is among the requested line flags and every bit of its
\* category value is among the requested category flags; for the values of
\* one bit this is the intersection test.
C7_FilterContains ==
    fl.pc = "filtered" =>
        /\ fl.keep <=>
              /\ \A b \in 0..15 : Bit(fl.rv_rcl_type, b) => Bit(fl.rcl_flags, b)
              /\ \A b \in 0..15 : Bit(fl.riv_ctg, b) => Bit(fl.ctg_flags, b)
        /\ SingleBit(fl.rv_rcl_type) /\ SingleBit(fl.riv_ctg) =>
              (fl.keep <=> /\ FlagIntersects(fl.rcl_flags, fl.rv_rcl_type)
                           /\ FlagIntersects(fl.ctg_flags, fl.riv_ctg))

C7_Witness ==
    /\ fl.pc = "filtered"
    /\ fl.type = "all"
    /\ fl.rivCtg = "ikkyu"
    /\ fl.rcl_flags = RCL_SMALL_NORMAL + RCL_NORMAL
    /\ FlagContains(fl.ctg_flags, CTG_PRIMARY)
    /\ ~fl.keep

LookupsOn(k, pcs) ==
    { i \in 1..Len(lookups) : lookups[i].key = k /\ lookups[i].pc \in pcs }

\* C1: for every tile key, while the entry is absent at most one fetch+decode
\* is started (hist.started counts the inits since the entry was last
\* absent from the start or by eviction), the lookups that miss on the key
\* have exactly one init running, no init runs while the entry is in the
\* cache, and all lookups served by one init read the same grid.
C1_SingleFlight ==
    /\ \A k \in DemKeys :
          /\ hist.started[k] <= 1
          /\ Cardinality(LookupsOn(k, { "fetch" })) <= 1
          /\ LookupsOn(k, { "wait", "fetch" }) # { } =>
                /\ Cardinality(LookupsOn(k, { "fetch" })) = 1
                /\ hist.started[k] = 1
          /\ LookupsOn(k, { "fetch" }) # { } => cache[k] = NoGrid
    /\ \A i, j \in 1..Len(lookups) :
          /\ lookups[i].by # 0
          /\ lookups[i].by = lookups[j].by
          /\ lookups[i].pc \in { "have", "done" }
          /\ lookups[j].pc \in { "have", "done" }
          => lookups[i].grid = lookups[j].grid /\ lookups[i].key = lookups[j].key

C1_Witness ==
    \E i, j \in 1..Len(lookups) :
        /\ i # j
        /\ lookups[i].by = i
        /\ lookups[j].by = i
        /\ lookups[i].pc = "done"
        /\ lookups[j].pc = "done"
        /\ lookups[i].grid = lookups[j].grid
        /\ lookups[i].grid.src = "png_a"
        /\ hist.started[lookups[i].key] = 1

BatchOf(i) == (i - 1) \div cfg.batch

\* C2: a vector tile of batch k is requested only when every tile of the
\* batches before k has been fetched, no elevation lookup is pending and the
\* node rows and the link rows of every batch before k have been written.
C2_SequentialBatches ==
    \A i \in 1..Len(tiles) :
        fstate[i] # "new" =>
            /\ \A j \in 1..Len(tiles) : BatchOf(j) < BatchOf(i) => fstate[j] = "done"
            /\ hist.nodes_written >= BatchOf(i)
            /\ hist.links_written >= BatchOf(i)
            /\ fstate[i] = "sent" =>
                  /\ batch_i = BatchOf(i)
                  /\ \A l \in 1..Len(lookups) : lookups[l].pc = "done"

C2_Witness ==
    /\ pc = "fetch_ml"
    /\ \E i \in 1..Len(tiles) : fstate[i] = "sent" /\ BatchOf(i) = 1
    /\ hist.nodes_written = 1
    /\ hist.links_written = 1
    /\ \E n \in 1..Len(nodes_file.rows) : nodes_file.rows[n].batch = 0
    /\ \E n \in 1..Len(links_file.rows) : links_file.rows[n].batch = 0

FetchFailures == { "river_fetch", "geojson", "dem_fetch" }

\* C3: when a vector-tile fetch or a DEM-tile fetch of batch k fails fatally,
\* the run is aborted and both files hold the header and only rows of the
\* batches before k, all of them written.
C3_NoPartialBatch ==
    pc = "aborted" /\ hist.abort.cause \in FetchFailures =>
        /\ nodes_file.header /\ links_file.header
        /\ \A n \in 1..Len(nodes_file.rows) : nodes_file.rows[n].batch < batch_i
        /\ \A n \in 1..Len(links_file.rows) : links_file.rows[n].batch < batch_i
        /\ hist.nodes_written = batch_i
        /\ hist.links_written = batch_i

C3_Witness ==
    /\ pc = "aborted"
    /\ hist.abort.cause = "dem_fetch"
    /\ batch_i = 1
    /\ Len(links) > 0
    /\ Len(nodes_file.rows) > 0
    /\ \A n \in 1..Len(links_file.rows) : links_file.rows[n].batch = 0

\* C4 as stated: every tile request answered with a status that is not 2xx
\* is fatal, the run is aborted (so nothing derived from the answer is
\* written or cached).
C4_Non2xxIsFatal ==
    hist.non2xx => pc = "aborted"

IdsDistinct(rows) ==
    \A a, b \in 1..Len(rows) : a # b => rows[a].id # rows[b].id

\* C5: the deduplicated node list has exactly one record for every NodeID of
\* the accumulated list, its NodeIDs are those of the accumulated list, and
\* every record of it is one of the accumulated records (a pick, not a merge).
C5_DedupPicksOne ==
    pc = "append_bounds" =>
        /\ Len(nodes_file.rows) = Cardinality(RowIds(hist.pre_dedup))
        /\ RowIds(nodes_file.rows) = RowIds(hist.pre_dedup)
        /\ IdsDistinct(nodes_file.rows)
        /\ \A n \in 1..Len(nodes_file.rows) : nodes_file.rows[n] \in Range(hist.pre_dedup)

C5_Witness ==
    /\ pc = "append_bounds"
    /\ Len(hist.pre_dedup) = 4
    /\ Len(nodes_file.rows) = 2
    /\ \E n \in 1..Len(hist.pre_dedup) : hist.pre_dedup[n].loc = PtB
    /\ \E n \in 1..Len(nodes_file.rows) : nodes_file.rows[n].loc = PtB2

\* the lines the run retains from tile n of the list, and their vertices
LinesOfTile(n) == FilterFeatures(TileBody(tiles[n]), rv_rcl_flags, rv_ctg_flags)
VerticesOfTile(n) == Flatten(LinesOfTile(n))
Vertices == Flatten([n \in 1..Len(tiles) |-> VerticesOfTile(n)])
Cell(pt) == << pt.x, pt.y >>
CellsOfTile(n) == { Cell(v) : v \in Range(VerticesOfTile(n)) }
VertexIds == { NodeId(v) : v \in Range(Vertices) }

\* a complete run over 2 tiles whose lines share exactly one endpoint cell,
\* the vertices of each tile lying in distinct cells
TwoTilesOneSharedEndpoint ==
    /\ pc = "done"
    /\ Len(tiles) = 2
    /\ \A n \in 1..2 : VerticesOfTile(n) # << >>
    /\ \A n \in 1..2 : Cardinality(CellsOfTile(n)) = Len(VerticesOfTile(n))
    /\ Cardinality(CellsOfTile(1) \cap CellsOfTile(2)) = 1

\* distinct cells of the vertices have distinct NodeIDs
IdsSeparateCells ==
    \A v, w \in Range(Vertices) : NodeId(v) = NodeId(w) => Cell(v) = Cell(w)

\* C6 as stated: after such a run the node file holds the vertices of the
\* two tiles less one (the shared endpoint counted once) as its data rows.
C6_AsStated ==
    TwoTilesOneSharedEndpoint => Len(nodes_file.rows) = Len(Vertices) - 1

\* C6: after a complete run the node file holds one RiverNode row for every
\* NodeID of the retained vertices, followed by the 4 BoundNode rows; for 2
\* tiles sharing exactly one endpoint cell whose cells have distinct
\* NodeIDs that is (vertices - 1) + 4 data rows.
C6_NodeCount ==
    pc = "done" =>
        LET rows == nodes_file.rows
            k == Cardinality(VertexIds)
        IN  /\ Len(rows) = k + 4
            /\ \A n \in 1..Len(rows) :
                  rows[n].label = IF n <= k THEN "RiverNode" ELSE "BoundNode"
            /\ { rows[n].id : n \in 1..Min(k, Len(rows)) } = VertexIds
            /\ TwoTilesOneSharedEndpoint /\ IdsSeparateCells =>
                  Len(rows) = (Len(Vertices) - 1) + 4

C6_Witness ==
    /\ TwoTilesOneSharedEndpoint
    /\ IdsSeparateCells
    /\ tiles = << "1.geojson", "2.geojson" >>
    /\ Len(Vertices) = 4
    /\ Len(nodes_file.rows) = 7
    /\ nodes_file.rows[7].label = "BoundNode"

\* C10: a DEM body that is not an image makes the cache entry a grid of
\* 256 * 256 zeros; no run is aborted on such a grid, every lookup served by
\* it gets altitude 0, and no fetch of the tile runs while the entry is there.
C10_DecodeFallback ==
    /\ \A k \in DemKeys :
          cache[k].src = "html" =>
              /\ cache[k].len = 256 * 256
              /\ cache[k].v = 0
              /\ LookupsOn(k, { "fetch" }) = { }
              /\ hist.started[k] <= 1
    /\ \A i \in 1..Len(lookups) :
          lookups[i].grid.src = "html" =>
              /\ lookups[i].grid.len = 256 * 256
              /\ lookups[i].pc # "panic"
              /\ lookups[i].pc = "done" => lookups[i].alt = 0
    /\ hist.abort.src # "html"

C10_Witness ==
    /\ pc = "write_nodes"
    /\ \E i, j \in 1..Len(lookups) :
          /\ i # j
          /\ lookups[i].key = lookups[j].key
          /\ lookups[i].by = i /\ lookups[j].by = i
          /\ lookups[i].pc = "done" /\ lookups[j].pc = "done"
          /\ lookups[i].grid.src = "html" /\ lookups[j].grid.src = "html"
          /\ lookups[i].alt = 0 /\ lookups[j].alt = 0
          /\ cache[lookups[i].key].src = "html"
          /\ hist.started[lookups[i].key] = 1

\* ------------------------------------------------- collect_links alone
MaxLines == 2
MaxLineLen == 3

LinkPoints == { PtA, PtB }
LinesTried == UNION { [1..n -> LinkPoints] : n \in 0..MaxLineLen }
LineLists == UNION { [1..m -> LinesTried] : m \in 0..MaxLines }

InitLinks ==
    /\ RunOff
    /\ fl = IdleFl /\ dm = IdleDm /\ tl = IdleTl /\ hb = IdleHb /\ rn = IdleRn
    /\ lk \in [pc : { "lines" }, lines : LineLists]

\* collect_links(&lines)
CollectLinks ==
    /\ lk.pc = "lines"
    /\ lk' = [pc |-> "links", lines |-> lk.lines, links |-> collect_links(lk.lines)]
    /\ UNCHANGED << runVars, fl, dm, tl, hb, rn >>

\* write_links(&links_path, &links) after the header
WriteLinksAlone ==
    /\ lk.pc = "links"
    /\ lk' = [pc |-> "written", lines |-> lk.lines, links |-> lk.links,
              rows |-> AppendRows(<< >>, [n \in 1..Len(lk.links) |-> LinkRow(lk.links[n], 0)])]
    /\ UNCHANGED << runVars, fl, dm, tl, hb, rn >>

NextLinks == CollectLinks \/ WriteLinksAlone

SpecLinks == InitLinks /\ [][NextLinks]_vars

\* ---------------------------------------------- calc_hilbert_index alone
MaxSpread == 2

\* the pixel cells at the identity zoom that are tried: around two cells
\* that lie 65536 pixels apart
HilbertCells ==
    { << PtA.x + i, y + j >> : i \in 0..MaxSpread, j \in 0..MaxSpread, y \in { PtA.y, PtF.y } }

InitHilbert ==
    /\ RunOff
    /\ fl = IdleFl /\ dm = IdleDm /\ tl = IdleTl /\ lk = IdleLk /\ rn = IdleRn
    /\ hb \in [pc : { "cells" }, a : HilbertCells, b : HilbertCells]

\* calc_hilbert_index on two points, after ll2pixel
ComputeIds ==
    /\ hb.pc = "cells"
    /\ hb' = [pc |-> "ids", a |-> hb.a, b |-> hb.b,
              ida |-> calc_hilbert_index(hb.a[1], hb.a[2]),
              idb |-> calc_hilbert_index(hb.b[1], hb.b[2])]
    /\ UNCHANGED << runVars, fl, dm, tl, lk, rn >>

NextHilbert == ComputeIds

SpecHilbert == InitHilbert /\ [][NextHilbert]_vars

\* ------------------------------------ a node row written and read back
\* a number is its sign, the digits before the point and the digits after
\* it, as Display prints an f64 (no exponent, no point without digits)
Num(neg, int, frac) == [neg |-> neg, int |-> int, frac |-> frac]

NumsTried ==
    { Num(neg, int, frac) :
        neg \in BOOLEAN,
        int \in { << "0" >>, << "3", "5" >>, << "1", "3", "5" >> },
        frac \in { << >>, << "5" >>, << "2", "5" >> } }
    \ { Num(TRUE, << "0" >>, << >>) }

IdsTried == { << "7" >>, << "4", "2" >>, << "3", "0", "5" >> }

Digits == { "0", "1", "2", "3", "4", "5", "6", "7", "8", "9" }

\* format!("{long}") of an f64
FormatF64(n) ==
    (IF n.neg THEN << "-" >> ELSE << >>) \o n.int \o
    (IF n.frac = << >> THEN << >> ELSE << "." >> \o n.frac)

\* the line write_nodes and append_bounds write for one node:
\* id,"{longitude:<long>,latitude:<lat>}",altitude,label
FormatRow(id, long, lat, label) ==
    id \o << ",", "\"", "{", "l", "o", "n", "g", "i", "t", "u", "d", "e", ":" >> \o
    FormatF64(long) \o
    << ",", "l", "a", "t", "i", "t", "u", "d", "e", ":" >> \o FormatF64(lat) \o
    << "}", "\"", ",", "0", "," >> \o label

RECURSIVE SplitComma(_)
\* line.split(","): the fields between the commas
SplitComma(line) ==
    IF \A i \in 1..Len(line) : line[i] # ","
    THEN << line >>
    ELSE LET k == CHOOSE i \in 1..Len(line) :
                      line[i] = "," /\ \A j \in 1..(i - 1) : line[j] # ","
         IN  << SubSeq(line, 1, k - 1) >> \o SplitComma(SubSeq(line, k + 1, Len(line)))

\* parse::<u32>() of a field of decimal digits
ParseU32(field) ==
    IF field # << >> /\ \A i \in 1..Len(field) : field[i] \in Digits
    THEN Ok(field) ELSE Err

\* parse::<f64>() of a text of digits and points
ParseF64Text(text) ==
    LET points == { i \in 1..Len(text) : text[i] = "." }
    IN  IF text = << >> \/ Cardinality(points) > 1 \/ text = << "." >>
        THEN Err
        ELSE IF points = { }
        THEN Ok(Num(FALSE, text, << >>))
        ELSE LET k == CHOOSE i \in points : TRUE
             IN  Ok(Num(FALSE, SubSeq(text, 1, k - 1), SubSeq(text, k + 1, Len(text))))

IsDigitOrPoint(c) == c \in Digits \/ c = "."

\* chars().filter(|&c| c.is_ascii_digit() || c == '.').collect::<String>()
\* .parse::<f64>()
ReadCoordinate(field) == ParseF64Text(SelectSeq(field, IsDigitOrPoint))

\* the closure of filter_map in read_nodes on one line
ReadRow(line) ==
    LET fields == SplitComma(line)
    IN  IF Len(fields) < 3 \/ ~ParseU32(fields[1]).ok
           \/ ~ReadCoordinate(fields[2]).ok \/ ~ReadCoordinate(fields[3]).ok
        THEN [ok |-> FALSE]
        ELSE [ok |-> TRUE, id |-> ParseU32(fields[1]).v,
              long |-> ReadCoordinate(fields[2]).v, lat |-> ReadCoordinate(fields[3]).v]

Labels == { << "R", "i", "v", "e", "r", "N", "o", "d", "e" >>,
            << "B", "o", "u", "n", "d", "N", "o", "d", "e" >> }

InitNodeFile ==
    /\ RunOff
    /\ fl = IdleFl /\ dm = IdleDm /\ tl = IdleTl /\ lk = IdleLk /\ hb = IdleHb
    /\ rn \in [pc : { "node" }, id : IdsTried, long : NumsTried, lat : NumsTried,
               label : Labels]

\* write_nodes or append_bounds writes the row of the node
WriteRow ==
    /\ rn.pc = "node"
    /\ rn' = [pc |-> "line", id |-> rn.id, long |-> rn.long, lat |-> rn.lat,
              label |-> rn.label, line |-> FormatRow(rn.id, rn.long, rn.lat, rn.label)]
    /\ UNCHANGED << runVars, fl, dm, tl, lk, hb >>

\* read_nodes reads the row
ReadBack ==
    /\ rn.pc = "line"
    /\ rn' = [pc |-> "read", id |-> rn.id, long |-> rn.long, lat |-> rn.lat,
              label |-> rn.label, line |-> rn.line, back |-> ReadRow(rn.line)]
    /\ UNCHANGED << runVars, fl, dm, tl, lk, hb >>

NextNodeFile == WriteRow \/ ReadBack

SpecNodeFile == InitNodeFile /\ [][NextNodeFile]_vars

\* ------------------------------------------------ claims on tile_locator
AncestorTile(t, s) == << t[1] \div Pow2(s), t[2] \div Pow2(s) >>

ParentsInFile(child) ==
    { r.start : r \in { q \in BagToSet(tl.family_file) : q.end = child } }

\* C11: for every zoom-Z tile with a membership, the CHILD rows lead from
\* the tile, by one parent (x/2, y/2, z-1) at each of Z steps, to tile (0,0)
\* at zoom 0, and every tile of the chain has a row in the tile file.
C11_TileHierarchy ==
    tl.pc = "done" =>
        \A t \in DOMAIN tl.tile_and_node :
            LET Z == tl.max_zoomlv
            IN  /\ AncestorTile(t, Z) = << 0, 0 >>
                /\ \A s \in 0..Z :
                      \E r \in BagToSet(tl.tiles_file) :
                          /\ r.id = TileId(AncestorTile(t, s), Z - s)
                          /\ r.x = AncestorTile(t, s)[1]
                          /\ r.y = AncestorTile(t, s)[2]
                /\ \A s \in 0..(Z - 1) :
                      ParentsInFile(TileId(AncestorTile(t, s), Z - s)) =
                          { TileId(AncestorTile(t, s + 1), Z - s - 1) }

C11_Witness ==
    /\ tl.pc = "done"
    /\ tl.max_zoomlv = 2
    /\ << 3, 3 >> \in DOMAIN tl.tile_and_node
    /\ ParentsInFile(<< 3, 3, 2 >>) = { << 1, 1, 1 >> }
    /\ ParentsInFile(<< 1, 1, 1 >>) = { << 0, 0, 0 >> }
    /\ \E r \in BagToSet(tl.tiles_file) : r.id = << 0, 0, 0 >>

\* the half-plane test of the claim on pixel p against the projected face
HalfPlaneTest(tri, p) ==
    LET c1 == (tri[2][1] - tri[1][1]) * (p[2] - tri[1][2]) - (tri[2][2] - tri[1][2]) * (p[1] - tri[1][1])
        c2 == (tri[3][1] - tri[2][1]) * (p[2] - tri[2][2]) - (tri[3][2] - tri[2][2]) * (p[1] - tri[2][1])
        c3 == (tri[1][1] - tri[3][1]) * (p[2] - tri[3][2]) - (tri[1][2] - tri[3][2]) * (p[1] - tri[3][1])
    IN  (c1 >= 0 /\ c2 >= 0 /\ c3 >= 0) \/ (c1 <= 0 /\ c2 <= 0 /\ c3 <= 0)

EdgeSide(tri, i, p) ==
    LET a == tri[i]
        b == tri[(i % 3) + 1]
    IN  (b[1] - a[1]) * (p[2] - a[2]) - (b[2] - a[2]) * (p[1] - a[1])

\* all 4 corners of tile t lie strictly outside on the same side of an edge
StrictlyOutside(tri, t) ==
    LET area == EdgeSide(tri, 1, tri[3])
    IN  \E i \in 1..3 :
            \/ area >= 0 /\ \A p \in TileCorners(t) : EdgeSide(tri, i, p) < 0
            \/ area <= 0 /\ \A p \in TileCorners(t) : EdgeSide(tri, i, p) > 0

AllCornersPass(tri, t) == \A p \in TileCorners(t) : HalfPlaneTest(tri, p)

TilesAt(z) == (0..(Pow2(z) - 1)) \X (0..(Pow2(z) - 1))

ProcessedFaces == 1..(tl.fi - 1)

ProjectedFace(j) == TriVertices(tl.faces[j], tl.max_zoomlv)

SinglePixel(tri) == tri[1] = tri[2] /\ tri[2] = tri[3]

\* C12 as stated: for every face and every zoom-Z tile, the tile is recorded
\* for the face when all 4 corners pass the test, and is not recorded when
\* all 4 corners are strictly outside on the same side of an edge.
C12_AsStated ==
    tl.pc # "idle" =>
        \A j \in ProcessedFaces : \A t \in TilesAt(tl.max_zoomlv) :
            /\ AllCornersPass(ProjectedFace(j), t) => << j, t >> \in tl.recorded
            /\ StrictlyOutside(ProjectedFace(j), t) => << j, t >> \notin tl.recorded

\* C12: the same, the first part for the faces whose 3 projected vertices
\* are not one and the same pixel; a face projected on one pixel is
\* recorded for the tile of that pixel only.
C12_TileOverlap ==
    tl.pc # "idle" =>
        \A j \in ProcessedFaces : \A t \in TilesAt(tl.max_zoomlv) :
            /\ AllCornersPass(ProjectedFace(j), t) /\ ~SinglePixel(ProjectedFace(j))
                  => << j, t >> \in tl.recorded
            /\ StrictlyOutside(ProjectedFace(j), t) => << j, t >> \notin tl.recorded
            /\ SinglePixel(ProjectedFace(j)) =>
                  (<< j, t >> \in tl.recorded <=>
                      t = << ProjectedFace(j)[1][1] \div 256, ProjectedFace(j)[1][2] \div 256 >>)

C12_Witness ==
    /\ tl.pc = "faces"
    /\ tl.max_zoomlv = 2
    /\ \E j \in ProcessedFaces :
          /\ FaceIds(tl.faces[j]) = << 1, 2, 3 >>
          /\ AllCornersPass(ProjectedFace(j), << 0, 0 >>)
          /\ << j, << 0, 0 >> >> \in tl.recorded
          /\ StrictlyOutside(ProjectedFace(j), << 3, 3 >>)
          /\ << j, << 3, 3 >> >> \notin tl.recorded

\* C17 as stated: every (tile, NodeID) pair has at most one MEMBER row.
C17_MembershipIsSet ==
    \A r \in BagToSet(tl.membership_file) : CopiesIn(r, tl.membership_file) <= 1

\* ------------------------------------- further claims on the collect run
InvalidFlagList(kind, list) == \E i \in 1..Len(list) : list[i] \notin Recognized(kind)

NumericField(field) == field \in { "134.0", "135.0", "33.6", "35.0" }

InvalidAabb ==
    /\ cfg.aabb.some
    /\ \/ Len(cfg.aabb.s) < 4
       \/ \E i \in 1..Min(4, Len(cfg.aabb.s)) : ~NumericField(cfg.aabb.s[i])
       \/ /\ Len(cfg.aabb.s) >= 4
          /\ \A i \in 1..4 : NumericField(cfg.aabb.s[i])
          /\ \/ parse_f64(cfg.aabb.s[1]).v >= parse_f64(cfg.aabb.s[2]).v
             \/ parse_f64(cfg.aabb.s[3]).v >= parse_f64(cfg.aabb.s[4]).v

InvalidConfig ==
    \/ InvalidFlagList("rcl", cfg.line)
    \/ InvalidFlagList("ctg", cfg.category)
    \/ cfg.zoom_lv \notin 0..24
    \/ InvalidAabb

NoRequestSent ==
    /\ \A i \in 1..Len(fstate) : fstate[i] = "new"
    /\ \A k \in DemKeys : hist.started[k] = 0 /\ cache[k] = NoGrid

\* C13: with an invalid line list, category list, zoom level or AABB (bounds
\* out of order included) the run aborts at once: no request is ever sent
\* and neither river_node.csv nor river_link.csv is created or truncated.
C13_ConfigErrorsFirst ==
    (pc # "off" /\ InvalidConfig) =>
        /\ pc \in { "start", "aborted" }
        /\ pc = "aborted" => hist.abort.cause = "config"
        /\ ~nodes_file.exists /\ ~links_file.exists
        /\ NoRequestSent

C13_Witness ==
    /\ pc = "aborted"
    /\ hist.abort.cause = "config"
    /\ cfg.aabb = SomeAabb(<< "134.0", "134.0", "33.6", "35.0" >>)
    /\ cfg.line = << "all" >>
    /\ cfg.zoom_lv = 14
    /\ cfg.mokuroku = << "path", "1.geojson" >>
    /\ ~nodes_file.exists /\ ~links_file.exists
    /\ NoRequestSent

BatchOrdered(rows) ==
    \A a, b \in 1..Len(rows) : a < b => rows[a].batch <= rows[b].batch

\* C14 as stated: in the node file and in the link file of a completed run
\* the rows of batch i come before the rows of batch j for all i < j.
C14_AsStated ==
    pc = "done" => BatchOrdered(nodes_file.rows) /\ BatchOrdered(links_file.rows)

\* C14: the link file is in batch order at all times, and so is the node
\* file as the batch loop writes it, up to deduplicate_nodes; the completed
\* node file has the deduplicated rows, in any order, before the 4 bound rows.
C14_BatchOrder ==
    /\ BatchOrdered(links_file.rows)
    /\ pc \notin { "append_bounds", "done" } => BatchOrdered(nodes_file.rows)
    /\ BatchOrdered(hist.pre_dedup)
    /\ pc = "done" =>
          \A n \in 1..Len(nodes_file.rows) :
              nodes_file.rows[n].label = "BoundNode" <=> n > Len(nodes_file.rows) - 4

C14_Witness ==
    /\ pc = "done"
    /\ \E n \in 1..Len(links_file.rows) : links_file.rows[n].batch = 0
    /\ \E n \in 1..Len(links_file.rows) : links_file.rows[n].batch = 1
    /\ \E n \in 1..Len(hist.pre_dedup) : hist.pre_dedup[n].batch = 0
    /\ \E n \in 1..Len(hist.pre_dedup) : hist.pre_dedup[n].batch = 1
    /\ ~BatchOrdered(nodes_file.rows)

BeginsWithDigit(row) == row \in TilePaths

\* C16 as stated: without AABB the tiles of the run are the rows of the file
\* that begin with a digit, all of them, in file order, and every tile is
\* in exactly one batch.
C16_TileListSelection ==
    (pc \notin { "off", "start" } /\ hist.abort.cause # "config" /\ ~cfg.aabb.some) =>
        /\ tiles = SelectSeq(cfg.mokuroku, BeginsWithDigit)
        /\ \A i \in 1..Len(tiles) :
              Cardinality({ k \in 0..(NumChunks - 1) : i \in Chunk(k) }) = 1

\* C18 as stated: every grid in the cache has 256 * 256 samples, whatever
\* image the server returned, and no lookup indexes outside its grid.
C18_GridSize ==
    /\ \A k \in DemKeys : cache[k] # NoGrid => cache[k].len = 256 * 256
    /\ hist.abort.cause # "index"

\* ------------------------------------------------ claims on collect_links
EdgesOf(line) == IF Len(line) < 2 THEN 0 ELSE Len(line) - 1

RECURSIVE EdgesBefore(_, _)
EdgesBefore(ls, l) == IF l <= 1 THEN 0 ELSE EdgesBefore(ls, l - 1) + EdgesOf(ls[l - 1])

\* C15: every line p_1..p_n gives exactly its n-1 edges (id(p_i), id(p_i+1)),
\* from the earlier to the later point, none for n < 2; no other edge is
\* emitted (none across two lines), none is dropped as a duplicate, and the
\* link file has one RIVER_LINK row for every edge.
C15_LineEdges ==
    lk.pc \in { "links", "written" } =>
        /\ Len(lk.links) = EdgesBefore(lk.lines, Len(lk.lines) + 1)
        /\ \A l \in 1..Len(lk.lines) : \A i \in 1..EdgesOf(lk.lines[l]) :
              LET e == lk.links[EdgesBefore(lk.lines, l) + i]
              IN  /\ e.start = NodeId(lk.lines[l][i])
                  /\ e.end = NodeId(lk.lines[l][i + 1])
        /\ lk.pc = "written" =>
              /\ Len(lk.rows) = Len(lk.links)
              /\ \A n \in 1..Len(lk.rows) :
                    /\ lk.rows[n].type = "RIVER_LINK"
                    /\ lk.rows[n].start = lk.links[n].start
                    /\ lk.rows[n].end = lk.links[n].end

C15_Witness ==
    /\ lk.pc = "written"
    /\ lk.lines = << << PtA, PtB, PtA >>, << PtA, PtB >> >>
    /\ Len(lk.rows) = 3
    /\ lk.rows[1].start = lk.rows[3].start /\ lk.rows[1].end = lk.rows[3].end
    /\ lk.rows[2].start = NodeId(PtB) /\ lk.rows[2].end = NodeId(PtA)

\* ------------------------------------------ claims on calc_hilbert_index
FullIndex(c) == HilbertDigits(c[1], c[2], GridSide \div 2)
Low32(c) == SubSeq(FullIndex(c), IdentityOrder - 15, IdentityOrder)
Block16(c) == << c[1] \div 65536, c[2] \div 65536 >>

\* C19 as stated: two different cells never get the same NodeID.
C19_AsStated ==
    (hb.pc = "ids" /\ hb.a # hb.b) => hb.ida # hb.idb

\* C19: the order-26 index differs for any two cells; the NodeID is its low
\* 32 bits, so two cells have the same NodeID exactly when their indices
\* agree in the low 32 bits (the last 16 base-4 digits); two different cells
\* of one aligned block of 65536 x 65536 pixels never do.
C19_Low32Bits ==
    hb.pc = "ids" =>
        /\ hb.a # hb.b => FullIndex(hb.a) # FullIndex(hb.b)
        /\ hb.ida = hb.idb <=> Low32(hb.a) = Low32(hb.b)
        /\ (hb.a # hb.b /\ Block16(hb.a) = Block16(hb.b)) => hb.ida # hb.idb

C19_Witness ==
    /\ hb.pc = "ids"
    /\ hb.a = << PtA.x, PtA.y >>
    /\ hb.b = << PtF.x, PtF.y >>
    /\ hb.ida = hb.idb
    /\ FullIndex(hb.a) # FullIndex(hb.b)

\* ------------------------------------------------- claims on read_nodes
\* C20 as stated: a node row written with (id, longitude, latitude) is read
\* back by read_nodes with the same id, longitude and latitude, negative
\* values included.
C20_RoundTrip ==
    rn.pc = "read" =>
        /\ rn.back.ok
        /\ rn.back.id = rn.id
        /\ rn.back.long = rn.long
        /\ rn.back.lat = rn.lat

====
